---- MODULE Spec2Model ----
(***************************************************************************)
(* PocketsphinxTranscriber (rhasspyasr_pocketsphinx/transcribe.py): one    *)
(* adapter instance, called sequentially.  The Pocketsphinx engine and the *)
(* file system are the environment: the hypothesis of an utterance, the    *)
(* failure of process_raw and the presence of the model files are chosen   *)
(* nondeterministically.                                                   *)
(***************************************************************************)
EXTENDS Integers, Sequences, FiniteSets, TLC

\* Bounds of the model.
MaxFrames == 1      \* frames announced by / stored in a WAV container
MaxRate == 2        \* sample rates 0..MaxRate (0: a header wave.open accepts)
MaxHypLen == 2      \* characters of a hypothesis string

VARIABLES
    self,              \* the adapter's fields (transcribe.py:30-35)
    fs,                \* the file system: are the models loadable, does the matrix exist
    pc,                \* position of the one caller inside transcribe_wav
    wav_data,          \* argument of the current (or last) transcribe_wav call
    wav_duration,      \* local of transcribe_wav (line 49)
    audio_data,        \* local of transcribe_wav (lines 44, 52)
    transcribe_seconds,\* local of transcribe_wav (line 60)
    utt_open,          \* engine state of the handle: an utterance is started
    events,            \* decoder calls issued by the current (or last) call, in order,
                       \* each with what the engine answered
    ret,               \* how the current (or last) call ended
    hist               \* history: what happened at call entry and at decoder construction

vars == <<self, fs, pc, wav_data, wav_duration, audio_data, transcribe_seconds,
          utt_open, events, ret, hist>>

----------------------------------------------------------------------------
\* Values

None == "None"
AcousticModelPath == "acoustic_model"
DictionaryPath == "dictionary.txt"
LanguageModelPath == "language_model.txt"
MllrPath == "mllr_matrix"
devnull == "/dev/null"

Samples == {0, 1}
Chars == {" ", "a"}
LogProbs == {-1, 0}
\* time.perf_counter() differences, in ticks
Elapsed == {0, 1}

RECURSIVE SeqsUpTo(_, _)
SeqsUpTo(S, n) ==
    IF n = 0 THEN {<<>>}
    ELSE LET shorter == SeqsUpTo(S, n - 1)
         IN  shorter \cup {Append(s, x) : s \in {t \in shorter : Len(t) = n - 1}, x \in S}

\* A byte buffer handed to transcribe_wav: a RIFF/WAVE container (wellformed) whose
\* header announces nframes frames at framerate, holding data (fewer frames than
\* announced when the buffer is truncated), or anything else (not wellformed).
NotWav == [wellformed |-> FALSE, nframes |-> 0, framerate |-> 0, data |-> <<>>]
WavBuffers ==
    {NotWav} \cup
    {w \in [wellformed : {TRUE}, nframes : 0..MaxFrames, framerate : 0..MaxRate,
             data : SeqsUpTo(Samples, MaxFrames)] : Len(w.data) <= w.nframes}

\* What Decoder.hyp() gives: None, or a Hypothesis object with hypstr and prob.
NoHyp == [isNone |-> TRUE, hypstr |-> <<>>, prob |-> 0]
Hypotheses ==
    {NoHyp} \cup
    {[isNone |-> FALSE, hypstr |-> s, prob |-> p] :
        s \in SeqsUpTo(Chars, MaxHypLen), p \in LogProbs}

FsStates == [models_ok : BOOLEAN, mllr_exists : BOOLEAN]

NoDecoder == [isNone |-> TRUE, id |-> 0, config |-> {}]

\* typing.Optional[Transcription]
NoTranscription ==
    [isNone |-> TRUE, text |-> <<>>, likelihood |-> <<0, 1>>,
     transcribe_seconds |-> 0, wav_seconds |-> <<0, 1>>]
Transcription(text, likelihood, seconds, wav_seconds) ==
    [isNone |-> FALSE, text |-> text, likelihood |-> likelihood,
     transcribe_seconds |-> seconds, wav_seconds |-> wav_seconds]

NoCall == [status |-> "none", value |-> NoTranscription, exc |-> ""]
Running == [status |-> "running", value |-> NoTranscription, exc |-> ""]
Returned(v) == [status |-> "returned", value |-> v, exc |-> ""]
Raised(e) == [status |-> "raised", value |-> NoTranscription, exc |-> e]

----------------------------------------------------------------------------
\* Pure helpers

RECURSIVE GCD(_, _)
GCD(a, b) == IF b = 0 THEN a ELSE GCD(b, a % b)

\* A float as the exact fraction <<numerator, denominator>> in lowest terms.
Frac(n, d) == LET g == GCD(n, d) IN <<n \div g, d \div g>>

\* frames / float(rate)   (rate # 0)
Duration_floordiv(frames, rate) == <<frames \div rate, 1>>
Duration(frames, rate) == Frac(frames, rate)

RECURSIVE lstrip(_)
lstrip(s) == IF s # <<>> /\ Head(s) = " " THEN lstrip(Tail(s)) ELSE s
RECURSIVE rstrip(_)
rstrip(s) ==
    IF s # <<>> /\ s[Len(s)] = " " THEN rstrip(SubSeq(s, 1, Len(s) - 1)) ELSE s
\* str.strip()
strip(s) == rstrip(lstrip(s))

RECURSIVE Pow2(_)
Pow2(n) == IF n = 0 THEN 1 ELSE 2 * Pow2(n - 1)
\* decoder.get_logmath().exp(prob): the probability of a log-probability prob <= 0
logmath_exp(prob) == <<1, Pow2(-prob)>>

\* truth value of `hyp` in `if hyp:`: None is false, a Hypothesis object is true
Truthy(hyp) == ~hyp.isNone

----------------------------------------------------------------------------
\* wave module

\* wave.open(...): does the header parse
wave_open_lenient(w) == TRUE
wave_open(w) == w.wellformed
getnframes(w) == w.nframes
getframerate(w) == w.framerate
Min(a, b) == IF a < b THEN a ELSE b
\* wav_file.readframes(n): at most n frames, as many as the buffer holds
readframes(w, n) == SubSeq(w.data, 1, Min(n, Len(w.data)))

----------------------------------------------------------------------------
\* The adapter

\* __init__
PocketsphinxTranscriber_eager(acoustic_model, dictionary, language_model, mllr_matrix, debug) ==
    [acoustic_model |-> acoustic_model, dictionary |-> dictionary,
     language_model |-> language_model, mllr_matrix |-> mllr_matrix,
     debug |-> debug,
     decoder |-> [isNone |-> FALSE, id |-> 1, config |-> {}]]
PocketsphinxTranscriber(acoustic_model, dictionary, language_model, mllr_matrix, debug) ==
    [acoustic_model |-> acoustic_model, dictionary |-> dictionary,
     language_model |-> language_model, mllr_matrix |-> mllr_matrix,
     debug |-> debug, decoder |-> NoDecoder]

\* decoder_config.set_string(key, value)
set_string(config, key, value) ==
    {p \in config : p[1] # key} \cup {<<key, value>>}
default_config == {}

\* Path.exists()
exists(files, path) == path = MllrPath /\ files.mllr_exists

\* get_decoder, lines 75-84: the configuration handed to pocketsphinx.Decoder
decoder_config_no_exists_check(s, files) ==
    LET c1 == set_string(default_config, "-hmm", s.acoustic_model)
        c2 == set_string(c1, "-dict", s.dictionary)
        c3 == set_string(c2, "-lm", s.language_model)
        c4 == IF ~s.debug THEN set_string(c3, "-logfn", devnull) ELSE c3
    IN  IF s.mllr_matrix # None THEN set_string(c4, "-mllr", s.mllr_matrix) ELSE c4
decoder_config(s, files) ==
    LET c1 == set_string(default_config, "-hmm", s.acoustic_model)
        c2 == set_string(c1, "-dict", s.dictionary)
        c3 == set_string(c2, "-lm", s.language_model)
        c4 == IF ~s.debug THEN set_string(c3, "-logfn", devnull) ELSE c3
    IN  IF (s.mllr_matrix # None) /\ exists(files, s.mllr_matrix)
        THEN set_string(c4, "-mllr", s.mllr_matrix)
        ELSE c4

\* pocketsphinx.Decoder(decoder_config): raises when the model files cannot be loaded
DecoderLoads(config, files) == files.models_ok

\* `if self.decoder is None:` (line 39)
NeedsLoad_always(s) == TRUE
NeedsLoad(s) == s.decoder.isNone

\* One decoder call in the log of the current transcribe_wav call.
\* ok: the call returned (it raised otherwise); hyp: what hyp() returned.
Event(op, handle, data, no_search, full_utt, ok) ==
    [op |-> op, handle |-> handle, data |-> data, no_search |-> no_search,
     full_utt |-> full_utt, ok |-> ok, hyp |-> NoHyp]

\* self.decoder.process_raw(audio_data, False, True) (line 57)
process_raw_call_streaming(handle, data, ok) ==
    Event("process_raw", handle, data, FALSE, FALSE, ok)
process_raw_call(handle, data, ok) ==
    Event("process_raw", handle, data, FALSE, TRUE, ok)

\* Lines 64-70: the value transcribe_wav returns for the hypothesis hyp
transcription_of_unconditional(hyp, seconds, duration) ==
    Transcription(strip(hyp.hypstr), logmath_exp(hyp.prob), seconds, duration)
transcription_of(hyp, seconds, duration) ==
    IF Truthy(hyp)
    THEN Transcription(strip(hyp.hypstr), logmath_exp(hyp.prob), seconds, duration)
    ELSE NoTranscription

----------------------------------------------------------------------------
Init ==
    /\ \E m \in {None, MllrPath}, d \in BOOLEAN :
          self = PocketsphinxTranscriber(AcousticModelPath, DictionaryPath,
                                         LanguageModelPath, m, d)
    /\ fs \in FsStates
    /\ pc = "idle"
    /\ wav_data = NotWav
    /\ wav_duration = <<0, 1>>
    /\ audio_data = <<>>
    /\ transcribe_seconds = 0
    /\ utt_open = FALSE
    /\ events = <<>>
    /\ ret = NoCall
    /\ hist = [called |-> FALSE, builds |-> 0, entry_self |-> self,
               load_tried |-> FALSE, build_fs |-> fs, parsed |-> FALSE]

\* The environment: model files and the adaptation matrix appear and disappear.
\* Only get_decoder reads the file system, so a change during a call is seen as
\* a change before it.
FsChange ==
    /\ pc = "idle"
    /\ \E f \in FsStates \ {fs} : fs' = f
    /\ UNCHANGED <<self, pc, wav_data, wav_duration, audio_data, transcribe_seconds,
                   utt_open, events, ret, hist>>

\* A call ends by raising exc: the locals are dropped, nothing else is undone.
Raise(exc) ==
    /\ pc' = "idle"
    /\ ret' = Raised(exc)

\* transcribe_wav(wav_data) is entered (line 37).
Call ==
    /\ pc = "idle"
    /\ \E w \in WavBuffers : wav_data' = w
    /\ pc' = "load"
    /\ ret' = Running
    /\ events' = <<>>
    /\ wav_duration' = <<0, 1>>
    /\ audio_data' = <<>>
    /\ transcribe_seconds' = 0
    /\ hist' = [hist EXCEPT !.called = TRUE, !.entry_self = self,
                            !.load_tried = FALSE, !.parsed = FALSE]
    /\ UNCHANGED <<self, fs, utt_open>>

\* Lines 39-41 with the handle empty: self.decoder = self.get_decoder() (lines 72-93).
LoadDecoder ==
    /\ pc = "load"
    /\ NeedsLoad(self)
    /\ LET config == decoder_config(self, fs) IN
       IF DecoderLoads(config, fs)
       THEN /\ self' = [self EXCEPT !.decoder =
                           [isNone |-> FALSE, id |-> hist.builds + 1, config |-> config]]
            /\ utt_open' = FALSE
            /\ hist' = [hist EXCEPT !.builds = @ + 1, !.load_tried = TRUE,
                                    !.build_fs = fs]
            /\ pc' = "wav"
            /\ UNCHANGED ret
       ELSE /\ Raise("InitError")
            /\ hist' = [hist EXCEPT !.load_tried = TRUE, !.build_fs = fs]
            /\ UNCHANGED <<self, utt_open>>
    /\ UNCHANGED <<fs, wav_data, wav_duration, audio_data, transcribe_seconds, events>>

\* Line 39 with the handle set: nothing is loaded.
ReuseDecoder ==
    /\ pc = "load"
    /\ ~NeedsLoad(self)
    /\ pc' = "wav"
    /\ UNCHANGED <<self, fs, wav_data, wav_duration, audio_data, transcribe_seconds,
                   utt_open, events, ret, hist>>

\* Lines 44-52: parse the container, compute the duration, read the frames.
ParseWav_reset ==
    /\ pc = "wav"
    /\ IF ~wave_open(wav_data)
       THEN /\ Raise("wave.Error")
            /\ self' = [self EXCEPT !.decoder = NoDecoder]
            /\ UNCHANGED <<wav_duration, audio_data, hist>>
       ELSE IF getframerate(wav_data) = 0
       THEN /\ Raise("ZeroDivisionError")
            /\ UNCHANGED <<self, wav_duration, audio_data, hist>>
       ELSE /\ wav_duration' = Duration(getnframes(wav_data), getframerate(wav_data))
            /\ audio_data' = readframes(wav_data, getnframes(wav_data))
            /\ hist' = [hist EXCEPT !.parsed = TRUE]
            /\ pc' = "start_utt"
            /\ UNCHANGED <<self, ret>>
    /\ UNCHANGED <<fs, wav_data, transcribe_seconds, utt_open, events>>
ParseWav ==
    /\ pc = "wav"
    /\ IF ~wave_open(wav_data)
       THEN /\ Raise("wave.Error")
            /\ UNCHANGED <<wav_duration, audio_data, hist>>
       ELSE IF getframerate(wav_data) = 0
       THEN /\ Raise("ZeroDivisionError")
            /\ UNCHANGED <<wav_duration, audio_data, hist>>
       ELSE /\ wav_duration' = Duration(getnframes(wav_data), getframerate(wav_data))
            /\ audio_data' = readframes(wav_data, getnframes(wav_data))
            /\ hist' = [hist EXCEPT !.parsed = TRUE]
            /\ pc' = "start_utt"
            /\ UNCHANGED ret
    /\ UNCHANGED <<self, fs, wav_data, transcribe_seconds, utt_open, events>>

\* Line 56: self.decoder.start_utt().  The engine refuses to start an utterance
\* while one is started.
StartUtt ==
    /\ pc = "start_utt"
    /\ events' = Append(events,
                        Event("start_utt", self.decoder.id, <<>>, FALSE, FALSE, ~utt_open))
    /\ IF utt_open
       THEN /\ Raise("RuntimeError")
            /\ UNCHANGED utt_open
       ELSE /\ utt_open' = TRUE
            /\ pc' = "process_raw"
            /\ UNCHANGED ret
    /\ UNCHANGED <<self, fs, wav_data, wav_duration, audio_data, transcribe_seconds, hist>>

\* Line 57: self.decoder.process_raw(audio_data, False, True).  The engine either
\* searches the utterance or reports an error, which the binding raises.
ProcessRaw ==
    /\ pc = "process_raw"
    /\ \E ok \in BOOLEAN :
          /\ events' = Append(events, process_raw_call(self.decoder.id, audio_data, ok))
          /\ IF ok
             THEN /\ pc' = "end_utt"
                  /\ UNCHANGED ret
             ELSE Raise("RuntimeError")
    /\ UNCHANGED <<self, fs, wav_data, wav_duration, audio_data, transcribe_seconds,
                   utt_open, hist>>

\* Lines 58-61: self.decoder.end_utt(), then the elapsed time is taken.
EndUtt ==
    /\ pc = "end_utt"
    /\ events' = Append(events,
                        Event("end_utt", self.decoder.id, <<>>, FALSE, FALSE, TRUE))
    /\ utt_open' = FALSE
    /\ \E t \in Elapsed : transcribe_seconds' = t
    /\ pc' = "hyp"
    /\ UNCHANGED <<self, fs, wav_data, wav_duration, audio_data, ret, hist>>

\* Lines 63-70: query the engine's best hypothesis of the utterance (whatever
\* the engine found) and build the result.
Hyp ==
    /\ pc = "hyp"
    /\ \E hyp \in Hypotheses :
          /\ events' = Append(events,
                 [Event("hyp", self.decoder.id, <<>>, FALSE, FALSE, TRUE)
                     EXCEPT !.hyp = hyp])
          /\ ret' = Returned(transcription_of(hyp, transcribe_seconds, wav_duration))
    /\ pc' = "idle"
    /\ UNCHANGED <<self, fs, wav_data, wav_duration, audio_data, transcribe_seconds,
                   utt_open, hist>>

Next ==
    \/ FsChange
    \/ Call
    \/ LoadDecoder
    \/ ReuseDecoder
    \/ ParseWav
    \/ StartUtt
    \/ ProcessRaw
    \/ EndUtt
    \/ Hyp

Spec == Init /\ [][Next]_vars

----------------------------------------------------------------------------
\* Vocabulary of the properties

Ended == pc = "idle" /\ hist.called
ReturnedTranscription == Ended /\ ret.status = "returned" /\ ~ret.value.isNone
ReturnedAbsence == Ended /\ ret.status = "returned" /\ ret.value.isNone
OkCalls(op) == {i \in 1..Len(events) : events[i].op = op /\ events[i].ok}

\* The decoder calls of one whole utterance pass on `handle` over `payload`.
UtterancePass(handle, payload) ==
    << [op |-> "start_utt", handle |-> handle, data |-> <<>>,
        no_search |-> FALSE, full_utt |-> FALSE],
       [op |-> "process_raw", handle |-> handle, data |-> payload,
        no_search |-> FALSE, full_utt |-> TRUE],
       [op |-> "end_utt", handle |-> handle, data |-> <<>>,
        no_search |-> FALSE, full_utt |-> FALSE],
       [op |-> "hyp", handle |-> handle, data |-> <<>>,
        no_search |-> FALSE, full_utt |-> FALSE] >>
CallOf(e) ==
    [op |-> e.op, handle |-> e.handle, data |-> e.data,
     no_search |-> e.no_search, full_utt |-> e.full_utt]

----------------------------------------------------------------------------
\* C1: the decoder handle is empty from construction until the first
\* transcribe_wav call; a decoder is built successfully at most once; once the
\* handle is set it is never cleared or replaced (it stays the handle of the
\* first and only build), and every decoder call of every later transcribe_wav
\* call goes to that handle.
C1_LazySingleHandle ==
    /\ ~hist.called => self.decoder.isNone
    /\ hist.builds <= 1
    /\ self.decoder.isNone <=> hist.builds = 0
    /\ self.decoder.id = hist.builds
    /\ \A i \in 1..Len(events) : events[i].handle = 1
    /\ pc \in {"wav", "start_utt", "process_raw", "end_utt", "hyp"}
          => ~self.decoder.isNone

\* A call that found the handle already set and decoded an utterance on it.
C1_Witness ==
    /\ Ended
    /\ ~hist.entry_self.decoder.isNone
    /\ self.decoder = hist.entry_self.decoder
    /\ Len(events) = 4

\* C2: transcribe_wav returns a Transcription only when hyp() gave a hypothesis
\* (an object, not None); in every other completed decode, where end_utt
\* returned and hyp() gave None, it returns None and raises nothing.
C2_TranscriptionIffHypothesis ==
    Ended =>
      /\ OkCalls("end_utt") # {} =>
            /\ ret.status = "returned"
            /\ Len(events) = 4
            /\ events[4].op = "hyp"
            /\ ret.value.isNone <=> events[4].hyp.isNone
      /\ ~ret.value.isNone =>
            /\ OkCalls("hyp") # {}
            /\ \A i \in OkCalls("hyp") : ~events[i].hyp.isNone

\* A decode that completed without a hypothesis: absence is returned.
C2_Witness ==
    /\ ReturnedAbsence
    /\ OkCalls("end_utt") # {}
    /\ events[4].hyp.isNone

\* C3 as stated: a call with a malformed buffer always fails with the WAV
\* parse error, whatever the adapter's state.
C3_MalformedAlwaysWavError ==
    (Ended /\ ~wav_data.wellformed) => ret = Raised("wave.Error")

\* C3 amended: a call with a malformed buffer always fails and never returns
\* absence or a Transcription; the error is the WAV parse error when the call
\* has a decoder handle (kept from before or built by this call), and the
\* decoder initialization error when the handle is empty and cannot be built.
\* No decoder call is issued.
C3_MalformedAlwaysFails ==
    (Ended /\ ~wav_data.wellformed) =>
      /\ ret.status = "raised"
      /\ ret.value.isNone
      /\ events = <<>>
      /\ IF self.decoder.isNone
         THEN ret.exc = "InitError" /\ ~hist.build_fs.models_ok
         ELSE ret.exc = "wave.Error"

\* A malformed buffer rejected by the WAV parser on a handle built by that call.
C3_Witness ==
    /\ Ended
    /\ ~wav_data.wellformed
    /\ ret = Raised("wave.Error")
    /\ hist.load_tried

\* C4: construction fails for no model paths and loads nothing (the handle is
\* empty, no decoder construction was attempted, no decoder call was issued);
\* when the model files cannot be loaded, the call that attempts the
\* construction ends by raising the initialization error: it returns neither a
\* result nor absence.
C4_LazyInitErrorPropagates ==
    /\ ~hist.called =>
          /\ self.decoder.isNone
          /\ hist.builds = 0
          /\ ~hist.load_tried
          /\ events = <<>>
          /\ ~utt_open
          /\ ret = NoCall
          /\ pc = "idle"
    /\ (hist.called /\ pc # "load" /\ hist.load_tried /\ ~hist.build_fs.models_ok) =>
          /\ pc = "idle"
          /\ ret = Raised("InitError")
          /\ events = <<>>

\* The first call on an adapter whose model files cannot be loaded has raised.
C4_Witness ==
    /\ Ended
    /\ ret = Raised("InitError")
    /\ hist.builds = 0
    /\ ~fs.models_ok

\* C6: the decoder configuration holds -mllr exactly when a matrix path was
\* supplied and the file existed when the decoder was built; with a supplied
\* path that did not exist the configuration is the one of the same adapter
\* with no matrix path (whatever the file system says about the matrix), and
\* the construction raises only when the model files cannot be loaded.
C6_MissingMllrAsNone ==
    /\ ~self.decoder.isNone =>
          LET supplied == self.mllr_matrix # None
              existed == hist.build_fs.mllr_exists
              twin == [self EXCEPT !.mllr_matrix = None]
          IN  /\ (\E p \in self.decoder.config : p[1] = "-mllr") <=> (supplied /\ existed)
              /\ (supplied /\ ~existed) =>
                    \A f \in FsStates : self.decoder.config = decoder_config(twin, f)
    /\ (hist.called /\ pc # "load" /\ hist.load_tried /\ hist.build_fs.models_ok) =>
          ret.exc # "InitError"

\* A decoder built for an adapter whose matrix path did not exist.
C6_Witness ==
    /\ ~self.decoder.isNone
    /\ self.mllr_matrix = MllrPath
    /\ ~hist.build_fs.mllr_exists

\* C7: the wav_seconds of a returned Transcription is the frame count of the
\* container's header divided by its sample rate: as fractions,
\* wav_seconds * rate = frames, whatever the hypothesis, the elapsed time and
\* the earlier calls were.
C7_WavSeconds ==
    ReturnedTranscription =>
      LET ws == ret.value.wav_seconds IN
        /\ ws[2] > 0
        /\ ws[1] * wav_data.framerate = wav_data.nframes * ws[2]

\* A Transcription for one frame at rate 2: half a second.
C7_Witness ==
    /\ ReturnedTranscription
    /\ wav_data.nframes = 1
    /\ wav_data.framerate = 2
    /\ ret.value.wav_seconds = <<1, 2>>

C9_NoOpenUtteranceAfterCall ==
    pc = "idle" =>
      /\ ~utt_open
      /\ Cardinality(OkCalls("start_utt")) = Cardinality(OkCalls("end_utt"))
      /\ ret.exc \in {"wave.Error", "InitError", "ZeroDivisionError"} => events = <<>>

\* C10: a call whose decoder construction failed leaves every adapter field as
\* it was at call entry, the handle empty; every call entered with an empty
\* handle attempts the construction and no call entered with a handle does; a
\* call that failed in WAV parsing leaves the handle set (the one it had at
\* entry, or the one it built) and the other fields as they were.
C10_FailureFrames ==
    /\ (Ended /\ ret = Raised("InitError")) =>
          /\ self = hist.entry_self
          /\ self.decoder.isNone
    /\ (hist.called /\ pc # "load") =>
          (hist.load_tried <=> hist.entry_self.decoder.isNone)
    /\ (Ended /\ ret = Raised("wave.Error")) =>
          /\ ~self.decoder.isNone
          /\ hist.builds = 1
          /\ [self EXCEPT !.decoder = NoDecoder]
                = [hist.entry_self EXCEPT !.decoder = NoDecoder]
          /\ ~hist.entry_self.decoder.isNone => self = hist.entry_self

\* After a call that built the decoder and then failed in WAV parsing, a later
\* call found the handle set and built nothing.
C10_Witness ==
    /\ hist.called
    /\ pc = "wav"
    /\ ~hist.load_tried
    /\ ~hist.entry_self.decoder.isNone
    /\ hist.builds = 1

====
